---- MODULE Spec2Model ----
(***************************************************************************)
(* Model of the real-time fan-out layer of cryptonestle-backend:           *)
(* src/src/services/WebSocketService.ts (connection registry, subscription *)
(* sets, price loop, portfolio loop, per-user event pushes).               *)
(*                                                                         *)
(* Every socket.io handler that runs without an await is one action.  A    *)
(* handler that awaits is split at the await: the part before it is one    *)
(* action, the continuation is another, and the suspended call is kept in  *)
(* an "in flight" variable.  socket.io dispatches no client message to a   *)
(* socket after its disconnect, so the client-message actions are guarded  *)
(* by the socket being live; continuations are not.                        *)
(***************************************************************************)
EXTENDS Integers, FiniteSets, Sequences, TLC

\* socket ids the transport can hand out (each is used for one connection)
Conns == {"s1", "s2"}
\* user ids carried by valid credentials
Users == {"A", "B"}
\* JavaScript undefined: socket.data.userId before authentication, an absent argument
Undefined == "undefined"
\* result of authenticateSocket for a credential that does not verify
Null == "null"
\* credentials a client may send
Tokens == {"tokA", "tokB", "bad"}
\* price lists getCurrentPrices may resolve to (two different snapshots)
PriceLists == {"p1", "p2"}
\* per-user event pushes of the public broadcasting methods
Events == {"transaction-update", "investment-created", "investment-matured",
           "withdrawal-approved", "notification"}
\* at most this many suspended calls (authenticate, immediate pushes, loop callbacks) at a time
MaxInFlight == 1

VARIABLES
    sockState,              \* socket id -> "new" (not handed out yet), "live", "dead"
    dataUserId,             \* socket.data.userId
    connectedUsers,         \* Map userId -> Set of socket ids
    priceSubscribers,       \* Set of socket ids
    portfolioSubscribers,   \* Map socket id -> userId
    transactionSubscribers, \* Map socket id -> userId
    authInFlight,           \* authenticate handlers suspended at the await, <<socket, token>>
    pricesInFlight,         \* sendCurrentPrices calls suspended at the await, socket ids
    portfolioInFlight,      \* sendCurrentPortfolio calls suspended at the await, <<socket, userId>>
    priceTick,              \* price loop callback: "idle" or "fetching"
    portCur,                \* portfolio loop: <<socket, userId>> being valuated, <<>> when idle
    portVisited,            \* portfolio loop: keys the Map iterator has already passed
    emitted,                \* the emits made by the last step, [to, event, data]
    rooms,                  \* socket id -> the rooms the socket is in (its own id among them)
    now,                    \* Date.now()
    priceCalls,             \* getCurrentPrices calls suspended in a caller: caller -> call
    cache,                  \* PriceService.cache: key -> [data, expiry]
    lastFetched,            \* the last fetch that succeeded: the provider and its records
    valuation,              \* the last getPortfolioValue call looked at: its inputs and its result
    notifications,          \* prisma.notification: userId -> number of records
    lastOutcome,            \* what the last HTTP request or queue job reported to its caller
    refreshTimers,          \* the setInterval timers of PriceService instances that are running
    delivered,              \* socket id -> the per-user pushes emitted to it, in order
    pushCount,              \* userId -> the number of per-user pushes issued for it
    ticks                   \* loop -> the callbacks its setInterval has started, modulo 2

vars == <<sockState, dataUserId, connectedUsers, priceSubscribers,
          portfolioSubscribers, transactionSubscribers, authInFlight,
          pricesInFlight, portfolioInFlight, priceTick, portCur, portVisited,
          emitted, rooms, now, priceCalls, cache, lastFetched, valuation,
          notifications, lastOutcome, refreshTimers, delivered, pushCount,
          ticks>>

registry == <<connectedUsers, priceSubscribers, portfolioSubscribers, transactionSubscribers>>
inflight == <<authInFlight, pricesInFlight, portfolioInFlight>>
loops    == <<priceTick, portCur, portVisited>>
\* what a resolving getCurrentPrices call writes
priceStore == <<cache, lastFetched>>
\* state no handler of WebSocketService writes
\* the record of the per-user pushes
pushLog  == <<delivered, pushCount>>
apart    == <<now, valuation, notifications, lastOutcome, refreshTimers, pushLog, ticks>>

----------------------------------------------------------------------------
\* Map helpers (JavaScript Map as a function whose domain is the key set)

EmptyMap == [k \in {} |-> k]
MapSet(m, k, v) == [x \in DOMAIN m \cup {k} |-> IF x = k THEN v ELSE m[x]]
MapDelete(m, k) == [x \in DOMAIN m \ {k} |-> m[x]]

Emit(to, event, data) == [to |-> to, event |-> event, data |-> data]

InFlightCount == Cardinality(authInFlight) + Cardinality(pricesInFlight)
                   + Cardinality(portfolioInFlight)
                   + (IF priceTick = "fetching" THEN 1 ELSE 0)
                   + (IF portCur # <<>> THEN 1 ELSE 0)

Live == {c \in Conns : sockState[c] = "live"}
Dead == {c \in Conns : sockState[c] = "dead"}

----------------------------------------------------------------------------
\* Pure parts of the service

\* jwt.verify(token).userId, null when verification throws
authenticateSocket(token) ==
    CASE token = "tokA" -> "A"
      [] token = "tokB" -> "B"
      [] OTHER -> Null

addUserConnection(cu, userId, socketId) ==
    LET base == IF userId \in DOMAIN cu THEN cu ELSE MapSet(cu, userId, {})
    IN  [base EXCEPT ![userId] = @ \cup {socketId}]

\* handleDisconnection without the transactionSubscribers.delete
handleDisconnection_KeepsTransactions(reg, socketId, userId) ==
    LET cu  == reg.connectedUsers
        cu1 == IF userId # Undefined /\ userId \in DOMAIN cu
               THEN LET s == cu[userId] \ {socketId}
                    IN  IF Cardinality(s) = 0 THEN MapDelete(cu, userId)
                                              ELSE [cu EXCEPT ![userId] = s]
               ELSE cu
    IN  [connectedUsers         |-> cu1,
         priceSubscribers       |-> reg.priceSubscribers \ {socketId},
         portfolioSubscribers   |-> MapDelete(reg.portfolioSubscribers, socketId),
         transactionSubscribers |-> reg.transactionSubscribers]

\* handleDisconnection testing the size of the user's set before the delete
handleDisconnection_SizeBeforeDelete(reg, socketId, userId) ==
    LET cu  == reg.connectedUsers
        cu1 == IF userId # Undefined /\ userId \in DOMAIN cu
               THEN IF Cardinality(cu[userId]) <= 1
                    THEN MapDelete(cu, userId)
                    ELSE [cu EXCEPT ![userId] = @ \ {socketId}]
               ELSE cu
    IN  [connectedUsers         |-> cu1,
         priceSubscribers       |-> reg.priceSubscribers \ {socketId},
         portfolioSubscribers   |-> MapDelete(reg.portfolioSubscribers, socketId),
         transactionSubscribers |-> MapDelete(reg.transactionSubscribers, socketId)]

\* the registry as handleDisconnection(socket) leaves it
handleDisconnection(reg, socketId, userId) ==
    LET cu  == reg.connectedUsers
        cu1 == IF userId # Undefined /\ userId \in DOMAIN cu
               THEN LET s == cu[userId] \ {socketId}
                    IN  IF Cardinality(s) = 0 THEN MapDelete(cu, userId)
                                              ELSE [cu EXCEPT ![userId] = s]
               ELSE cu
    IN  [connectedUsers         |-> cu1,
         priceSubscribers       |-> reg.priceSubscribers \ {socketId},
         portfolioSubscribers   |-> MapDelete(reg.portfolioSubscribers, socketId),
         transactionSubscribers |-> MapDelete(reg.transactionSubscribers, socketId)]

Registry == [connectedUsers         |-> connectedUsers,
             priceSubscribers       |-> priceSubscribers,
             portfolioSubscribers   |-> portfolioSubscribers,
             transactionSubscribers |-> transactionSubscribers]

\* broadcastPriceUpdate leaving the loop after the first subscriber
broadcastPriceUpdate_FirstOnly(subs, prices) ==
    IF Cardinality(subs) > 0
    THEN {Emit(CHOOSE c \in subs : TRUE, "price-update", prices)}
    ELSE {}

\* the emits of broadcastPriceUpdate(prices)
broadcastPriceUpdate(subs, prices) ==
    IF Cardinality(subs) > 0
    THEN {Emit(c, "price-update", prices) : c \in subs}
    ELSE {}

\* the emits of the per-user pushes (broadcastTransactionUpdate .. sendNotification)
fanoutByUser(cu, userId, event, data) ==
    IF userId \in DOMAIN cu /\ Cardinality(cu[userId]) > 0
    THEN {Emit(c, event, data) : c \in cu[userId]}
    ELSE {}

getConnectedUsersCount == Cardinality(DOMAIN connectedUsers)
isUserConnected(u) == u \in DOMAIN connectedUsers

----------------------------------------------------------------------------
\* PriceService: the price cache and the two upstream providers

\* the clock advances by this many ms at most MaxClock times
MaxClock == 4
\* period of the price loop, the step of the clock
PriceBroadcastInterval == 30000
CACHE_DURATION == 60000
\* two of the four supported coin ids
SUPPORTED_CURRENCIES == {"ethereum", "bitcoin"}
\* the symbols fetchFromCoinMarketCap asks for (the same two coins)
symbols == {"ETH", "BTC"}
\* a provider request that throws (network error, non-2xx status, timeout,
\* CoinMarketCap key not configured)
Failed == [ok |-> FALSE, data |-> EmptyMap]
\* a provider request answered with `data`
Answered(data) == [ok |-> TRUE, data |-> data]
\* the usd quote of the market at time t (both providers report the market)
UsdQuote(t) == 2000 + t \div 300
\* the coins a provider's answer may carry data for
AnsweredCoins == {{"ethereum", "bitcoin"}, {"ethereum"}, {}}

getSymbolFromCoinId(coinId) ==
    CASE coinId = "ethereum" -> "ETH"
      [] coinId = "bitcoin"  -> "BTC"

\* String.prototype.toLowerCase on the symbols in use
toLowerCase(str) ==
    CASE str = "ETH" -> "eth"
      [] str = "BTC" -> "btc"
      [] OTHER -> str

\* response.data of CoinGecko at time t: coin id -> usd, for the coins it has data for
CoinGeckoData(t) == {[i \in ids |-> UsdQuote(t)] : ids \in AnsweredCoins}
\* response.data.data of CoinMarketCap at time t: symbol -> quote.USD.price
CoinMarketCapData(t) ==
    {[x \in {getSymbolFromCoinId(i) : i \in ids} |-> UsdQuote(t)] : ids \in AnsweredCoins}

\* what the two providers do when asked at time t; the secondary is asked
\* only after the primary failed
Outcomes(t) ==
    {[primary |-> Answered(d), secondary |-> Failed] : d \in CoinGeckoData(t)}
    \cup [primary   : {Failed},
          secondary : {Answered(d) : d \in CoinMarketCapData(t)} \cup {Failed}]

\* the CryptoPrice records fetchFromCoinGecko makes of response.data
fetchFromCoinGecko(data) ==
    {[symbol |-> getSymbolFromCoinId(coinId), price |-> data[coinId]] :
        coinId \in {i \in SUPPORTED_CURRENCIES : i \in DOMAIN data}}

\* the CryptoPrice records fetchFromCoinMarketCap makes of response.data.data
fetchFromCoinMarketCap(data) ==
    {[symbol |-> symbol, price |-> data[symbol]] :
        symbol \in {x \in symbols : x \in DOMAIN data}}

\* fetchPricesFromAPI that does not fall back to the second provider
fetchPricesFromAPI_PrimaryOnly(outcome) ==
    IF outcome.primary.ok
    THEN [ok |-> TRUE, by |-> "CoinGecko",
          prices |-> fetchFromCoinGecko(outcome.primary.data)]
    ELSE [ok |-> FALSE, by |-> "none", prices |-> {}]

\* fetchPricesFromAPI: ok is FALSE when it throws, by is the provider that answered
fetchPricesFromAPI(outcome) ==
    IF outcome.primary.ok
    THEN [ok |-> TRUE, by |-> "CoinGecko",
          prices |-> fetchFromCoinGecko(outcome.primary.data)]
    ELSE IF outcome.secondary.ok
         THEN [ok |-> TRUE, by |-> "CoinMarketCap",
               prices |-> fetchFromCoinMarketCap(outcome.secondary.data)]
         ELSE [ok |-> FALSE, by |-> "none", prices |-> {}]

\* getCachedPrices that still counts an entry as fresh at its expiry time
getCachedPrices_ExpiryInclusive(c, t, includeExpired) ==
    {c[k].data : k \in {x \in DOMAIN c : includeExpired \/ c[x].expiry >= t}}

getCachedPrices(c, t, includeExpired) ==
    {c[k].data : k \in {x \in DOMAIN c : includeExpired \/ c[x].expiry > t}}

\* prices.forEach(price => cache.set(price.symbol.toLowerCase(), ...)) at time t
cacheSet(c, prices, t) ==
    LET keys == {toLowerCase(p.symbol) : p \in prices}
    IN  [k \in DOMAIN c \cup keys |->
            IF k \in keys
            THEN [data   |-> CHOOSE p \in prices : toLowerCase(p.symbol) = k,
                  expiry |-> t + CACHE_DURATION]
            ELSE c[k]]

\* getCurrentPrices up to its await: the fresh entries if there are any,
\* otherwise the upstream fetch is started
getCurrentPricesBegin(c, t) ==
    LET cachedPrices == getCachedPrices(c, t, FALSE)
    IN  IF Cardinality(cachedPrices) > 0
        THEN [upstream |-> FALSE, prices |-> cachedPrices]
        ELSE [upstream |-> TRUE, prices |-> {}]

\* getCurrentPrices dropping the cache when the fetch throws
getCurrentPricesEnd_EvictsOnFailure(c, t, call, outcome) ==
    IF ~call.upstream
    THEN [prices |-> call.prices, cache |-> c, by |-> "none"]
    ELSE LET f == fetchPricesFromAPI(outcome)
         IN  IF f.ok
             THEN [prices |-> f.prices, cache |-> cacheSet(c, f.prices, t), by |-> f.by]
             ELSE [prices |-> getCachedPrices(c, t, TRUE), cache |-> EmptyMap, by |-> "none"]

\* getCurrentPrices whose fallback read leaves the expired entries out
getCurrentPricesEnd_FreshFallback(c, t, call, outcome) ==
    IF ~call.upstream
    THEN [prices |-> call.prices, cache |-> c, by |-> "none"]
    ELSE LET f == fetchPricesFromAPI(outcome)
         IN  IF f.ok
             THEN [prices |-> f.prices, cache |-> cacheSet(c, f.prices, t), by |-> f.by]
             ELSE [prices |-> getCachedPrices(c, t, FALSE), cache |-> c, by |-> "none"]

\* getCurrentPrices from its await on, at time t: what it returns, the cache
\* it leaves and the provider whose answer it cached ("none": no fetch succeeded)
getCurrentPricesEnd(c, t, call, outcome) ==
    IF ~call.upstream
    THEN [prices |-> call.prices, cache |-> c, by |-> "none"]
    ELSE LET f == fetchPricesFromAPI(outcome)
         IN  IF f.ok
             THEN [prices |-> f.prices, cache |-> cacheSet(c, f.prices, t), by |-> f.by]
             ELSE [prices |-> getCachedPrices(c, t, TRUE), cache |-> c, by |-> "none"]

----------------------------------------------------------------------------
\* PriceService.getPortfolioValue.  Amounts are in hundredths of a coin, unit
\* prices in whole usd, totals in usd cents, percentages in whole percent.

\* at most this many investment rows of the user
MaxInvestments == 2
\* the rows of the user in the investment table
InvestmentRows ==
    [currency       : {"ETH", "BTC"},
     amount         : {100},
     status         : {"PENDING", "ACTIVE", "COMPLETED"},
     expectedReturn : {0, 5},
     actualReturn   : {0, 105}]
\* the price lists getCurrentPrices may hand to the valuation
ValuationPrices ==
    {eth \cup btc : eth \in {{}, {[symbol |-> "ETH", price |-> 2000]}},
                    btc \in {{}, {[symbol |-> "BTC", price |-> 30000]}}}

\* prisma.investment.findMany({where: {userId, status: {in: ['ACTIVE', 'COMPLETED']}}})
findMany(rows) ==
    LET qualifies(r) == r.status \in {"ACTIVE", "COMPLETED"}
    IN  SelectSeq(rows, qualifies)

\* prices.find(p => p.symbol.toLowerCase() === currency)?.price || 0
priceOf(prices, currency) ==
    IF \E p \in prices : toLowerCase(p.symbol) = currency
    THEN (CHOOSE p \in prices : toLowerCase(p.symbol) = currency).price
    ELSE 0

\* one pass of the for loop of getPortfolioValue
valuateInvestment(acc, investment, prices, ethPrice) ==
    LET currency     == toLowerCase(investment.currency)
        amount       == investment.amount
        currentPrice == IF currency = "eth" THEN ethPrice ELSE priceOf(prices, currency)
        worth        == IF investment.status = "COMPLETED" /\ investment.actualReturn # 0
                        THEN investment.actualReturn * ethPrice
                        ELSE IF investment.status = "ACTIVE"
                             THEN (IF investment.expectedReturn # 0
                                   THEN investment.expectedReturn
                                   ELSE amount) * ethPrice
                             ELSE 0
        old          == IF currency \in DOMAIN acc.breakdown
                        THEN acc.breakdown[currency]
                        ELSE [amount |-> 0, value |-> 0, price |-> currentPrice]
    IN  [totalInvested     |-> acc.totalInvested + amount * ethPrice,
         totalCurrentValue |-> acc.totalCurrentValue + worth,
         breakdown         |-> MapSet(acc.breakdown, currency,
                                      [amount |-> old.amount + amount,
                                       value  |-> old.value + amount * currentPrice,
                                       price  |-> old.price])]

RECURSIVE valuateAll(_, _, _, _)
\* the for loop of getPortfolioValue over the first n investments
valuateAll(investments, n, prices, ethPrice) ==
    IF n = 0
    THEN [totalInvested |-> 0, totalCurrentValue |-> 0, breakdown |-> EmptyMap]
    ELSE valuateInvestment(valuateAll(investments, n - 1, prices, ethPrice),
                           investments[n], prices, ethPrice)

\* the valuation returned by the catch branch
ZeroValuation ==
    [totalValue |-> 0, totalInvested |-> 0, totalProfit |-> 0,
     profitPercentage |-> 0, breakdown |-> EmptyMap]

\* getPortfolioValue reporting a total loss when nothing is invested
getPortfolioValue_ZeroInvestedIsLoss(rows, prices, readFails) ==
    IF readFails
    THEN ZeroValuation
    ELSE LET investments == findMany(rows)
             ethPrice    == priceOf(prices, "eth")
             acc         == valuateAll(investments, Len(investments), prices, ethPrice)
             totalProfit == acc.totalCurrentValue - acc.totalInvested
         IN  [totalValue       |-> acc.totalCurrentValue,
              totalInvested    |-> acc.totalInvested,
              totalProfit      |-> totalProfit,
              profitPercentage |-> IF acc.totalInvested > 0
                                   THEN (totalProfit * 100) \div acc.totalInvested
                                   ELSE 0 - 100,
              breakdown        |-> acc.breakdown]

\* getPortfolioValue(userId) over the user's rows and the current price list;
\* readFails: the read of the investments throws
getPortfolioValue(rows, prices, readFails) ==
    IF readFails
    THEN ZeroValuation
    ELSE LET investments == findMany(rows)
             ethPrice    == priceOf(prices, "eth")
             acc         == valuateAll(investments, Len(investments), prices, ethPrice)
             totalProfit == acc.totalCurrentValue - acc.totalInvested
         IN  [totalValue       |-> acc.totalCurrentValue,
              totalInvested    |-> acc.totalInvested,
              totalProfit      |-> totalProfit,
              profitPercentage |-> IF acc.totalInvested > 0
                                   THEN (totalProfit * 100) \div acc.totalInvested
                                   ELSE 0,
              breakdown        |-> acc.breakdown]

\* the PriceService instances made at startup, each with its refresh timer:
\* the one of WebSocketService and the one of PriceController
StartupTimers == 2
\* no request or job has finished yet
NoOutcome == [op |-> "none", user |-> "none", status |-> "none"]

----------------------------------------------------------------------------
Init ==
    /\ sockState = [c \in Conns |-> "new"]
    /\ dataUserId = [c \in Conns |-> Undefined]
    /\ connectedUsers = EmptyMap
    /\ priceSubscribers = {}
    /\ portfolioSubscribers = EmptyMap
    /\ transactionSubscribers = EmptyMap
    /\ authInFlight = {}
    /\ pricesInFlight = {}
    /\ portfolioInFlight = {}
    /\ priceTick = "idle"
    /\ portCur = <<>>
    /\ portVisited = {}
    /\ emitted = {}
    /\ rooms = [c \in Conns |-> {}]
    /\ now = 0
    /\ priceCalls = EmptyMap
    /\ cache = EmptyMap
    /\ lastFetched = [by |-> "none", prices |-> {}]
    /\ valuation = <<>>
    /\ notifications = [u \in Users |-> 0]
    /\ lastOutcome = NoOutcome
    /\ refreshTimers = StartupTimers
    /\ delivered = [c \in Conns |-> <<>>]
    /\ pushCount = [u \in Users |-> 0]
    /\ ticks = [price |-> 0, portfolio |-> 0]

\* io.on('connection')
Connect(c) ==
    /\ sockState[c] = "new"
    /\ sockState' = [sockState EXCEPT ![c] = "live"]
    /\ emitted' = {}
    /\ UNCHANGED <<dataUserId, registry, inflight, loops>>
    /\ rooms' = [rooms EXCEPT ![c] = {c}]
    /\ UNCHANGED <<priceCalls, priceStore, apart>>

\* socket.on('authenticate'), up to the await of authenticateSocket
Authenticate(c, token) ==
    /\ sockState[c] = "live"
    /\ <<c, token>> \notin authInFlight
    /\ InFlightCount < MaxInFlight
    /\ authInFlight' = authInFlight \cup {<<c, token>>}
    /\ emitted' = {}
    /\ UNCHANGED <<sockState, dataUserId, registry, pricesInFlight, portfolioInFlight, loops>>
    /\ UNCHANGED <<rooms, priceCalls, priceStore, apart>>

\* socket.on('authenticate'), after the await
AuthenticateDone(c, token) ==
    /\ <<c, token>> \in authInFlight
    /\ authInFlight' = authInFlight \ {<<c, token>>}
    /\ LET userId == authenticateSocket(token) IN
         IF userId # Null
         THEN /\ dataUserId' = [dataUserId EXCEPT ![c] = userId]
              /\ connectedUsers' = addUserConnection(connectedUsers, userId, c)
              /\ emitted' = {Emit(c, "authenticated", userId)}
         ELSE /\ emitted' = {Emit(c, "error", "Authentication failed")}
              /\ UNCHANGED <<dataUserId, connectedUsers>>
    /\ UNCHANGED <<sockState, priceSubscribers, portfolioSubscribers,
                   transactionSubscribers, pricesInFlight, portfolioInFlight, loops>>
    /\ UNCHANGED <<rooms, priceCalls, priceStore, apart>>

\* socket.on('subscribe-prices'): add, then start sendCurrentPrices
SubscribePrices(c) ==
    /\ sockState[c] = "live"
    /\ c \notin pricesInFlight
    /\ InFlightCount < MaxInFlight
    /\ priceSubscribers' = priceSubscribers \cup {c}
    /\ pricesInFlight' = pricesInFlight \cup {c}
    /\ emitted' = {}
    /\ UNCHANGED <<sockState, dataUserId, connectedUsers, portfolioSubscribers,
                   transactionSubscribers, authInFlight, portfolioInFlight, loops>>
    /\ priceCalls' = MapSet(priceCalls, c, getCurrentPricesBegin(cache, now))
    /\ UNCHANGED <<rooms, priceStore, apart>>

\* sendCurrentPrices after the await of getCurrentPrices
SendCurrentPricesDone(c, prices) ==
    /\ c \in pricesInFlight
    /\ pricesInFlight' = pricesInFlight \ {c}
    /\ emitted' = {Emit(c, "price-update", prices)}
    /\ UNCHANGED <<sockState, dataUserId, registry, authInFlight, portfolioInFlight, loops>>
    /\ priceCalls' = MapDelete(priceCalls, c)
    /\ UNCHANGED <<rooms, apart>>

\* socket.on('unsubscribe-prices')
UnsubscribePrices(c) ==
    /\ sockState[c] = "live"
    /\ priceSubscribers' = priceSubscribers \ {c}
    /\ emitted' = {}
    /\ UNCHANGED <<sockState, dataUserId, connectedUsers, portfolioSubscribers,
                   transactionSubscribers, inflight, loops>>
    /\ UNCHANGED <<rooms, priceCalls, priceStore, apart>>

\* socket.on('subscribe-portfolio'), userId is the client's argument
SubscribePortfolio(c, userId) ==
    /\ sockState[c] = "live"
    /\ IF dataUserId[c] = userId
       THEN /\ <<c, userId>> \notin portfolioInFlight
            /\ InFlightCount < MaxInFlight
            /\ portfolioSubscribers' = MapSet(portfolioSubscribers, c, userId)
            /\ portfolioInFlight' = portfolioInFlight \cup {<<c, userId>>}
            /\ emitted' = {}
       ELSE /\ emitted' = {Emit(c, "error", "Unauthorized portfolio subscription")}
            /\ UNCHANGED <<portfolioSubscribers, portfolioInFlight>>
    /\ UNCHANGED <<sockState, dataUserId, connectedUsers, priceSubscribers,
                   transactionSubscribers, authInFlight, pricesInFlight, loops>>
    /\ UNCHANGED <<rooms, priceCalls, priceStore, apart>>

\* sendCurrentPortfolio after the await of getPortfolioValue(userId)
SendCurrentPortfolioEmit(c, userId, portfolio) ==
    /\ <<c, userId>> \in portfolioInFlight
    /\ portfolioInFlight' = portfolioInFlight \ {<<c, userId>>}
    /\ emitted' = {Emit(c, "portfolio-update", portfolio)}
    /\ UNCHANGED <<sockState, dataUserId, registry, authInFlight, pricesInFlight, loops>>
    /\ UNCHANGED <<rooms, priceCalls, priceStore, apart>>

\* the push with the portfolio named by its user (whose portfolio it is)
SendCurrentPortfolioDone(c, userId) == SendCurrentPortfolioEmit(c, userId, userId)

\* socket.on('unsubscribe-portfolio'); a deleted key is no longer behind the iterator
UnsubscribePortfolio(c) ==
    /\ sockState[c] = "live"
    /\ portfolioSubscribers' = MapDelete(portfolioSubscribers, c)
    /\ portVisited' = portVisited \ {c}
    /\ emitted' = {}
    /\ UNCHANGED <<sockState, dataUserId, connectedUsers, priceSubscribers,
                   transactionSubscribers, inflight, priceTick, portCur>>
    /\ UNCHANGED <<rooms, priceCalls, priceStore, apart>>

\* socket.on('subscribe-transactions')
SubscribeTransactions(c, userId) ==
    /\ sockState[c] = "live"
    /\ IF dataUserId[c] = userId
       THEN /\ transactionSubscribers' = MapSet(transactionSubscribers, c, userId)
            /\ emitted' = {}
       ELSE /\ emitted' = {Emit(c, "error", "Unauthorized transaction subscription")}
            /\ UNCHANGED transactionSubscribers
    /\ UNCHANGED <<sockState, dataUserId, connectedUsers, priceSubscribers,
                   portfolioSubscribers, inflight, loops>>
    /\ UNCHANGED <<rooms, priceCalls, priceStore, apart>>

\* socket.on('unsubscribe-transactions')
UnsubscribeTransactions(c) ==
    /\ sockState[c] = "live"
    /\ transactionSubscribers' = MapDelete(transactionSubscribers, c)
    /\ emitted' = {}
    /\ UNCHANGED <<sockState, dataUserId, connectedUsers, priceSubscribers,
                   portfolioSubscribers, inflight, loops>>
    /\ UNCHANGED <<rooms, priceCalls, priceStore, apart>>

\* socket.on('disconnect'): handleDisconnection(socket)
Disconnect(c) ==
    /\ sockState[c] = "live"
    /\ sockState' = [sockState EXCEPT ![c] = "dead"]
    /\ LET r == handleDisconnection(Registry, c, dataUserId[c]) IN
         /\ connectedUsers' = r.connectedUsers
         /\ priceSubscribers' = r.priceSubscribers
         /\ portfolioSubscribers' = r.portfolioSubscribers
         /\ transactionSubscribers' = r.transactionSubscribers
    /\ portVisited' = portVisited \ {c}
    /\ emitted' = {}
    /\ UNCHANGED <<dataUserId, inflight, priceTick, portCur>>
    /\ rooms' = [rooms EXCEPT ![c] = {}]
    /\ UNCHANGED <<priceCalls, priceStore, apart>>

\* the callbacks of the two setInterval loops are counted by whoever fires them
\* startPriceBroadcast callback without the test of priceSubscribers.size
PriceTickStart_NoSizeCheck ==
    /\ priceTick = "idle"
    /\ InFlightCount < MaxInFlight
    /\ priceTick' = "fetching"
    /\ priceCalls' = MapSet(priceCalls, "tick", getCurrentPricesBegin(cache, now))
    /\ emitted' = {}
    /\ UNCHANGED <<sockState, dataUserId, registry, inflight, portCur, portVisited>>
    /\ UNCHANGED <<rooms, priceStore>>
    /\ UNCHANGED <<now, valuation, notifications, lastOutcome, refreshTimers, pushLog>>

\* startPriceBroadcast callback, up to the await of getCurrentPrices
PriceTickStart ==
    /\ priceTick = "idle"
    /\ IF Cardinality(priceSubscribers) > 0
       THEN /\ InFlightCount < MaxInFlight
            /\ priceTick' = "fetching"
            /\ priceCalls' = MapSet(priceCalls, "tick", getCurrentPricesBegin(cache, now))
       ELSE /\ priceTick' = "idle"
            /\ UNCHANGED priceCalls
    /\ emitted' = {}
    /\ UNCHANGED <<sockState, dataUserId, registry, inflight, portCur, portVisited>>
    /\ UNCHANGED <<rooms, priceStore>>
    /\ UNCHANGED <<now, valuation, notifications, lastOutcome, refreshTimers, pushLog>>

\* startPriceBroadcast callback after the await: broadcastPriceUpdate(prices)
PriceTickDone(prices) ==
    /\ priceTick = "fetching"
    /\ priceTick' = "idle"
    /\ emitted' = broadcastPriceUpdate(priceSubscribers, prices)
    /\ UNCHANGED <<sockState, dataUserId, registry, inflight, portCur, portVisited>>
    /\ priceCalls' = MapDelete(priceCalls, "tick")
    /\ UNCHANGED <<rooms, apart>>

\* the entries the Map iterator of the portfolio loop has not passed yet
PortRemaining(visited) == DOMAIN portfolioSubscribers \ visited

\* startPortfolioUpdates callback: first entry, up to the await of getPortfolioValue
PortfolioTickStart ==
    /\ portCur = <<>>
    /\ emitted' = {}
    /\ portVisited' = {}
    /\ IF Cardinality(DOMAIN portfolioSubscribers) > 0
       THEN /\ InFlightCount < MaxInFlight
            /\ \E c \in DOMAIN portfolioSubscribers :
                  portCur' = <<c, portfolioSubscribers[c]>>
       ELSE portCur' = <<>>
    /\ UNCHANGED <<sockState, dataUserId, registry, inflight, priceTick>>
    /\ UNCHANGED <<rooms, priceCalls, priceStore>>
    /\ UNCHANGED <<now, valuation, notifications, lastOutcome, refreshTimers, pushLog>>

\* portfolio loop whose iteration ends the tick: the entries behind it are not served
PortfolioIterEmit_AbortsTick(portfolio) ==
    /\ portCur # <<>>
    /\ portCur' = <<>>
    /\ portVisited' = {}
    /\ UNCHANGED <<sockState, dataUserId, registry, inflight, priceTick>>
    /\ UNCHANGED <<rooms, priceCalls, priceStore>>
    /\ UNCHANGED <<now, notifications, lastOutcome, refreshTimers, pushLog, ticks>>
    /\ emitted' = {Emit(portCur[1], "portfolio-update", portfolio)}

\* portfolio loop after the await, getPortfolioValue having resolved to
\* `portfolio`: emit to the entry's socket, then the next entry
PortfolioIterEmit(portfolio) ==
    /\ portCur # <<>>
    /\ LET visited == (portVisited \cup {portCur[1]}) \cap DOMAIN portfolioSubscribers IN
         IF PortRemaining(visited) # {}
         THEN /\ \E c \in PortRemaining(visited) :
                    portCur' = <<c, portfolioSubscribers[c]>>
              /\ portVisited' = visited
         ELSE /\ portCur' = <<>>
              /\ portVisited' = {}
    /\ UNCHANGED <<sockState, dataUserId, registry, inflight, priceTick>>
    /\ UNCHANGED <<rooms, priceCalls, priceStore>>
    /\ UNCHANGED <<now, notifications, lastOutcome, refreshTimers, pushLog, ticks>>
    /\ emitted' = {Emit(portCur[1], "portfolio-update", portfolio)}

\* the iteration with the portfolio named by its user (whose portfolio it is)
PortfolioIterDone == PortfolioIterEmit(portCur[2]) /\ UNCHANGED valuation

\* the iteration with the valuation getPortfolioValue computes of the user's
\* rows and the current prices; readFails: the read of the investments throws
\* inside getPortfolioValue, which catches it
PortfolioIterValuated(rows, prices, readFails) ==
    /\ PortfolioIterEmit(getPortfolioValue(rows, prices, readFails))
    /\ valuation' = [rows |-> rows, prices |-> prices, readFails |-> readFails,
                     result |-> getPortfolioValue(rows, prices, readFails)]

\* sendCurrentPortfolio with the valuation getPortfolioValue computes
SendCurrentPortfolioValuated(c, userId, rows, prices, readFails) ==
    SendCurrentPortfolioEmit(c, userId, getPortfolioValue(rows, prices, readFails))

\* the investment rows and price lists of the users in the portfolio loop
LoopRows == {<<[currency |-> "ETH", amount |-> 100, status |-> "ACTIVE",
                expectedReturn |-> 5, actualReturn |-> 0]>>}
LoopPrices == {{[symbol |-> "ETH", price |-> 2000]}}

\* broadcastTransactionUpdate, broadcastInvestmentCreated, broadcastInvestmentMatured,
\* broadcastWithdrawalApproved, sendNotification
PushEvent(userId, event) ==
    /\ emitted' = fanoutByUser(connectedUsers, userId, event, userId)
    /\ UNCHANGED <<sockState, dataUserId, registry, inflight, loops>>
    /\ UNCHANGED <<rooms, priceCalls, priceStore>>
    /\ UNCHANGED <<now, valuation, notifications, lastOutcome, refreshTimers, ticks>>

\* at most this many per-user pushes are issued for one user
MaxPushes == 2

\* the per-user pushes of the broadcast* methods (the events of lines 293-340)
PushEvents == {"transaction-update", "investment-created", "investment-matured",
               "withdrawal-approved"}

\* socket.emit putting the messages at the head of what the socket is sent
socketEmit_AtHead(sent, message) == <<message>> \o sent

\* socket.emit: the message goes out on the socket after every earlier one
socketEmit(sent, message) == Append(sent, message)

\* a broadcast* method called for userId as the pushes[userId]-th push of that
\* user: what each of the user's sockets is sent is recorded message by message
IssuePush(userId, event) ==
    /\ pushCount[userId] < MaxPushes
    /\ PushEvent(userId, event)
    /\ pushCount' = [pushCount EXCEPT ![userId] = @ + 1]
    /\ delivered' = [c \in Conns |->
                        IF c \in {m.to : m \in fanoutByUser(connectedUsers, userId, event, userId)}
                        THEN socketEmit(delivered[c], <<userId, pushCount[userId] + 1>>)
                        ELSE delivered[c]]

\* room names a client may send: a socket id or a name of its own
Rooms == Conns \cup {"lobby"}

\* socket.on('join-room')
JoinRoom(c, room) ==
    /\ sockState[c] = "live"
    /\ rooms' = [rooms EXCEPT ![c] = @ \cup {room}]
    /\ emitted' = {}
    /\ UNCHANGED <<sockState, dataUserId, registry, inflight, loops>>
    /\ UNCHANGED <<priceCalls, priceStore, apart>>

\* socket.on('leave-room')
LeaveRoom(c, room) ==
    /\ sockState[c] = "live"
    /\ rooms' = [rooms EXCEPT ![c] = @ \ {room}]
    /\ emitted' = {}
    /\ UNCHANGED <<sockState, dataUserId, registry, inflight, loops>>
    /\ UNCHANGED <<priceCalls, priceStore, apart>>

\* the sockets io.to(to).emit delivers to
Receivers(to) == {c \in Conns : to \in rooms[c]}

\* at most this many PriceService refresh timers run in the process
MaxTimers == 3

\* WebSocketController.triggerPriceUpdate: `new PriceService()`, whose
\* constructor calls startPriceUpdateInterval (a setInterval nothing clears),
\* then, after its await of getCurrentPrices on that instance,
\* broadcastPriceUpdate(prices)
TriggerPriceUpdate(prices) ==
    /\ refreshTimers < MaxTimers
    /\ refreshTimers' = refreshTimers + 1
    /\ emitted' = broadcastPriceUpdate(priceSubscribers, prices)
    /\ UNCHANGED <<sockState, dataUserId, registry, inflight, loops>>
    /\ UNCHANGED <<rooms, priceCalls, priceStore>>
    /\ UNCHANGED <<now, valuation, notifications, lastOutcome, pushLog, ticks>>

\* sendCurrentPrices resumed by the getCurrentPrices call it awaits
SendCurrentPricesResolve(c, outcome) ==
    /\ c \in pricesInFlight
    /\ LET r == getCurrentPricesEnd(cache, now, priceCalls[c], outcome) IN
         /\ SendCurrentPricesDone(c, r.prices)
         /\ cache' = r.cache
         /\ lastFetched' = IF r.by # "none" THEN [by |-> r.by, prices |-> r.prices]
                                             ELSE lastFetched

\* the price loop callback resumed by the getCurrentPrices call it awaits
PriceTickResolve(outcome) ==
    /\ priceTick = "fetching"
    /\ LET r == getCurrentPricesEnd(cache, now, priceCalls["tick"], outcome) IN
         /\ PriceTickDone(r.prices)
         /\ cache' = r.cache
         /\ lastFetched' = IF r.by # "none" THEN [by |-> r.by, prices |-> r.prices]
                                             ELSE lastFetched

\* startPriceUpdateInterval callback of the PriceService, up to the await
\* inside its getCurrentPrices call
RefreshIntervalStart ==
    /\ "refresh" \notin DOMAIN priceCalls
    /\ priceCalls' = MapSet(priceCalls, "refresh", getCurrentPricesBegin(cache, now))
    /\ emitted' = {}
    /\ UNCHANGED <<sockState, dataUserId, registry, inflight, loops>>
    /\ UNCHANGED <<rooms, priceStore, apart>>

\* the providers answer the upstream fetch of `caller` with the market as it
\* is now; the answer is on its way to the service from here on
ProviderAnswers(caller, outcome) ==
    /\ caller \in DOMAIN priceCalls
    /\ priceCalls[caller].upstream
    /\ "answer" \notin DOMAIN priceCalls[caller]
    /\ priceCalls' = MapSet(priceCalls, caller,
                            [upstream |-> TRUE, prices |-> {}, answer |-> outcome])
    /\ emitted' = {}
    /\ UNCHANGED <<sockState, dataUserId, registry, inflight, loops>>
    /\ UNCHANGED <<rooms, priceStore, apart>>

\* the call of `caller` can resume: it fetched nothing or its answer is there
Deliverable(caller) ==
    /\ caller \in DOMAIN priceCalls
    /\ priceCalls[caller].upstream => "answer" \in DOMAIN priceCalls[caller]

\* what the awaited fetch of a call resolves to (nothing was asked: no answer)
AnswerOf(call) ==
    IF "answer" \in DOMAIN call THEN call.answer
                                ELSE [primary |-> Failed, secondary |-> Failed]

\* sendCurrentPrices resumed when the answer to its fetch arrives
SendCurrentPricesDeliver(c) ==
    /\ Deliverable(c)
    /\ SendCurrentPricesResolve(c, AnswerOf(priceCalls[c]))

\* the refresh callback resumed when the answer to its fetch arrives
RefreshIntervalDeliver ==
    /\ Deliverable("refresh")
    /\ LET r == getCurrentPricesEnd(cache, now, priceCalls["refresh"],
                                    AnswerOf(priceCalls["refresh"])) IN
         /\ cache' = r.cache
         /\ lastFetched' = IF r.by # "none" THEN [by |-> r.by, prices |-> r.prices]
                                             ELSE lastFetched
    /\ priceCalls' = MapDelete(priceCalls, "refresh")
    /\ emitted' = {}
    /\ UNCHANGED <<sockState, dataUserId, registry, inflight, loops>>
    /\ UNCHANGED <<rooms, apart>>

\* PriceService.clearCache
clearCache ==
    /\ cache' = EmptyMap
    /\ emitted' = {}
    /\ UNCHANGED <<sockState, dataUserId, registry, inflight, loops>>
    /\ UNCHANGED <<rooms, priceCalls, lastFetched, apart>>

\* time passes
AdvanceClock ==
    /\ now < MaxClock * PriceBroadcastInterval
    /\ now' = now + PriceBroadcastInterval
    /\ emitted' = {}
    /\ UNCHANGED <<sockState, dataUserId, registry, inflight, loops>>
    /\ UNCHANGED <<rooms, priceCalls, priceStore, valuation, notifications>>
    /\ UNCHANGED <<lastOutcome, refreshTimers, pushLog, ticks>>

\* a call of getPortfolioValue returns
GetPortfolioValue(rows, prices, readFails) ==
    /\ valuation' = [rows |-> rows, prices |-> prices, readFails |-> readFails,
                     result |-> getPortfolioValue(rows, prices, readFails)]
    /\ emitted' = {}
    /\ UNCHANGED <<sockState, dataUserId, registry, inflight, loops>>
    /\ UNCHANGED <<rooms, priceCalls, priceStore, now, notifications>>
    /\ UNCHANGED <<lastOutcome, refreshTimers, pushLog, ticks>>

\* at most this many notification records per user
MaxNotifications == 2

\* NotificationService.createNotification(notificationData) for userId;
\* persisted is FALSE when prisma.notification.create throws (caught and logged);
\* the promise resolves either way, what the caller reports is the caller's
createNotification(userId, persisted) ==
    /\ notifications[userId] < MaxNotifications
    /\ notifications' = IF persisted
                        THEN [notifications EXCEPT ![userId] = @ + 1]
                        ELSE notifications
    /\ emitted' = {}
    /\ UNCHANGED <<sockState, dataUserId, registry, inflight, loops>>
    /\ UNCHANGED <<rooms, priceCalls, priceStore, now, valuation>>
    /\ UNCHANGED <<refreshTimers, pushLog, ticks>>

\* the 'send-notification' processor of QueueService: await createNotification,
\* then return { processed: true }
SendNotificationJob(userId, persisted) ==
    /\ createNotification(userId, persisted)
    /\ lastOutcome' = [op |-> "send-notification", user |-> userId,
                       status |-> "processed"]

\* WebSocketController.sendNotification for an admin and a valid body:
\* webSocketService.sendNotification(userId, notification), then the success
\* response; nothing is written to prisma.notification
AdminSendNotification(userId) ==
    /\ emitted' = fanoutByUser(connectedUsers, userId, "notification", userId)
    /\ lastOutcome' = [op |-> "admin-send", user |-> userId, status |-> "success"]
    /\ UNCHANGED <<sockState, dataUserId, registry, inflight, loops>>
    /\ UNCHANGED <<rooms, priceCalls, priceStore, now, valuation, notifications>>
    /\ UNCHANGED <<refreshTimers, pushLog, ticks>>

\* WebSocketController.broadcastNotification for an admin and a valid body:
\* webSocketService.broadcastNotification(notification) is io.emit to every
\* connected socket, then the success response; nothing is persisted
AdminBroadcastNotification ==
    /\ emitted' = {Emit(c, "notification", "broadcast") : c \in Live}
    /\ lastOutcome' = [op |-> "admin-broadcast", user |-> "all", status |-> "success"]
    /\ UNCHANGED <<sockState, dataUserId, registry, inflight, loops>>
    /\ UNCHANGED <<rooms, priceCalls, priceStore, now, valuation, notifications>>
    /\ UNCHANGED <<refreshTimers, pushLog, ticks>>

\* the handlers of one socket that never wait
ConnectionStep ==
    \/ \E c \in Conns : Connect(c)
    \/ \E c \in Conns : Disconnect(c)

AuthStartWith(tokens) == \E c \in Conns, t \in tokens : Authenticate(c, t)
AuthStart == AuthStartWith(Tokens)
AuthDone  == \E c \in Conns, t \in Tokens : AuthenticateDone(c, t)

PriceFeedStep ==
    \/ \E c \in Conns : SubscribePrices(c)
    \/ \E c \in Conns, p \in PriceLists :
          SendCurrentPricesDone(c, p) /\ UNCHANGED priceStore
    \/ \E c \in Conns : UnsubscribePrices(c)

PortfolioFeedStep ==
    \/ \E c \in Conns, u \in Users \cup {Undefined} : SubscribePortfolio(c, u)
    \/ \E c \in Conns, u \in Users \cup {Undefined} : SendCurrentPortfolioDone(c, u)
    \/ \E c \in Conns : UnsubscribePortfolio(c)

TransactionFeedStep ==
    \/ \E c \in Conns, u \in Users \cup {Undefined} : SubscribeTransactions(c, u)
    \/ \E c \in Conns : UnsubscribeTransactions(c)

PriceLoopStep ==
    \/ PriceTickStart /\ UNCHANGED ticks
    \/ \E p \in PriceLists : PriceTickDone(p) /\ UNCHANGED priceStore

PortfolioLoopStep ==
    \/ PortfolioTickStart /\ UNCHANGED ticks
    \/ PortfolioIterDone

PushStep == \E u \in Users, e \in Events : PushEvent(u, e) /\ UNCHANGED pushLog

\* the whole service; the specifications below take it in parts, each with the
\* handlers that write the variables its properties are about
Next ==
    \/ ConnectionStep
    \/ AuthStart
    \/ AuthDone
    \/ PriceFeedStep
    \/ PortfolioFeedStep
    \/ TransactionFeedStep
    \/ PriceLoopStep
    \/ PortfolioLoopStep
    \/ PushStep

Spec == Init /\ [][Next]_vars

\* The await in the authenticate handler is `await import('jsonwebtoken')`
\* followed by a synchronous jwt.verify.  Whether another handler can run
\* before the continuation depends on how the module is built (a CommonJS
\* build resolves it in microtasks).  The specifications below that wrap
\* their steps in NoAuthPending take the schedule every build allows: the
\* continuation of authenticate runs before any other handler.
NoAuthPending == authInFlight = {}

\* connections, identities and per-user pushes
NextIdentity ==
    \/ NoAuthPending /\ ConnectionStep
    \/ NoAuthPending /\ AuthStart
    \/ AuthDone
    \/ NoAuthPending /\ PushStep

SpecIdentity == Init /\ [][NextIdentity]_vars

\* every socket handler and its continuation under every interleaving, the
\* one of a suspended authenticate with other handlers included; the clients
\* here hold the credential of one user or an invalid one (two sockets with
\* three feeds each are the subject, two identities on one socket are that of
\* SpecIdentity and SpecPortfolio)
NextRegistry ==
    \/ ConnectionStep
    \/ AuthStartWith({"tokA", "bad"})
    \/ AuthDone
    \/ PriceFeedStep
    \/ PortfolioFeedStep
    \/ TransactionFeedStep

SpecRegistry == Init /\ [][NextRegistry]_vars

\* the public price feed and the price loop
NextPrice ==
    \/ ConnectionStep
    \/ PriceFeedStep
    \/ PriceLoopStep

SpecPrice == Init /\ [][NextPrice]_vars

\* the portfolio feed and the portfolio loop
NextPortfolio ==
    \/ NoAuthPending /\ ConnectionStep
    \/ NoAuthPending /\ AuthStart
    \/ AuthDone
    \/ NoAuthPending /\ PortfolioFeedStep
    \/ NoAuthPending /\ PortfolioLoopStep

SpecPortfolio == Init /\ [][NextPortfolio]_vars

\* the clients that send subscribe-prices in SpecRooms; the other ones never do
PriceClients == {"s1"}

\* rooms and the public price feed: one client subscribes to prices, the other
\* never does; both may join and leave rooms
NextRooms ==
    \/ ConnectionStep
    \/ \E c \in Conns, r \in Rooms : JoinRoom(c, r)
    \/ \E c \in Conns, r \in Rooms : LeaveRoom(c, r)
    \/ \E c \in PriceClients : SubscribePrices(c)
    \/ \E c \in PriceClients, p \in PriceLists :
          SendCurrentPricesDone(c, p) /\ UNCHANGED priceStore
    \/ \E c \in PriceClients : UnsubscribePrices(c)
    \/ PriceLoopStep
    \/ \E p \in PriceLists : TriggerPriceUpdate(p)

SpecRooms == Init /\ [][NextRooms]_vars

\* the clients of SpecCache
CacheClients == {"s1"}

\* the price cache behind the price feed and the price loop, with the clock:
\* the getCurrentPrices calls of one client's subscriptions and of the loop
NextCache ==
    \/ \E c \in CacheClients : Connect(c)
    \/ \E c \in CacheClients : Disconnect(c)
    \/ \E c \in CacheClients : SubscribePrices(c)
    \/ \E c \in CacheClients, o \in Outcomes(now) : SendCurrentPricesResolve(c, o)
    \/ \E c \in CacheClients : UnsubscribePrices(c)
    \/ PriceTickStart /\ UNCHANGED ticks
    \/ \E o \in Outcomes(now) : PriceTickResolve(o)
    \/ clearCache
    \/ AdvanceClock

SpecCache == Init /\ [][NextCache]_vars

\* the sequences of at most MaxInvestments investment rows
RowLists == UNION {[1..n -> InvestmentRows] : n \in 0..MaxInvestments}

\* no valuation has been computed yet
NotValuated == valuation = <<>>

\* the portfolio valuation over every list of rows and every price list (the
\* function keeps no state: one call is looked at)
NextValuation ==
    \/ NotValuated /\ \E rows \in RowLists, prices \in ValuationPrices :
                         GetPortfolioValue(rows, prices, FALSE)
    \/ NotValuated /\ \E rows \in RowLists, prices \in ValuationPrices :
                         GetPortfolioValue(rows, prices, TRUE)

SpecValuation == Init /\ [][NextValuation]_vars

\* notifications: the queue's createNotification jobs, the push of
\* WebSocketService.sendNotification and the two admin endpoints of
\* WebSocketController, over connections and identities
NextNotify ==
    \/ NoAuthPending /\ ConnectionStep
    \/ NoAuthPending /\ AuthStart
    \/ AuthDone
    \/ NoAuthPending /\ \E u \in Users, ok \in BOOLEAN : SendNotificationJob(u, ok)
    \/ NoAuthPending /\ \E u \in Users : PushEvent(u, "notification") /\ UNCHANGED pushLog
    \/ NoAuthPending /\ \E u \in Users : AdminSendNotification(u)
    \/ NoAuthPending /\ AdminBroadcastNotification

SpecNotify == Init /\ [][NextNotify]_vars

\* the portfolio feed and the portfolio loop with the valuations it emits, for
\* clients that hold the credential of one user or an invalid one
NextPortfolioLoop ==
    \/ NoAuthPending /\ ConnectionStep
    \/ NoAuthPending /\ AuthStartWith({"tokA", "bad"})
    \/ AuthDone
    \/ NoAuthPending /\ \E c \in Conns, u \in Users \cup {Undefined} :
                           SubscribePortfolio(c, u)
    \/ NoAuthPending /\ \E c \in Conns, u \in Users :
                           \E rows \in LoopRows, prices \in LoopPrices, readFails \in BOOLEAN :
                              SendCurrentPortfolioValuated(c, u, rows, prices, readFails)
    \/ NoAuthPending /\ \E c \in Conns : UnsubscribePortfolio(c)
    \/ NoAuthPending /\ PortfolioTickStart /\ UNCHANGED ticks
    \/ NoAuthPending /\ \E rows \in LoopRows, prices \in LoopPrices, readFails \in BOOLEAN :
                           PortfolioIterValuated(rows, prices, readFails)

SpecPortfolioLoop == Init /\ [][NextPortfolioLoop]_vars

\* a callback of the price loop's setInterval starts
PriceTickFires ==
    PriceTickStart /\ ticks' = [ticks EXCEPT !.price = 1 - @]

\* a callback of the portfolio loop's setInterval starts
PortfolioTickFires ==
    PortfolioTickStart /\ ticks' = [ticks EXCEPT !.portfolio = 1 - @]

\* what the providers do in SpecLoops: the primary answers for every coin, or
\* both fail
LoopOutcomes ==
    {o \in Outcomes(0) : /\ o.secondary = Failed
                         /\ o.primary.ok => DOMAIN o.primary.data = SUPPORTED_CURRENCIES}

\* the continuations of the calls the loops and the immediate pushes await
PriceTickSettles == NoAuthPending /\ \E o \in LoopOutcomes : PriceTickResolve(o)
PortfolioIterSettles ==
    NoAuthPending /\ \E rows \in LoopRows, prices \in LoopPrices, readFails \in BOOLEAN :
                        PortfolioIterValuated(rows, prices, readFails)
SendCurrentPricesSettles ==
    NoAuthPending /\ \E c \in CacheClients, o \in LoopOutcomes :
                        SendCurrentPricesResolve(c, o)
SendCurrentPortfolioSettles ==
    NoAuthPending /\ \E c \in Conns, u \in Users :
                        \E rows \in LoopRows, prices \in LoopPrices, readFails \in BOOLEAN :
                           SendCurrentPortfolioValuated(c, u, rows, prices, readFails)

\* the two loops with their callbacks counted, the feeds they serve and the
\* provider and persistence failures their iterations meet; the clients
\* authenticate as one user and subscribe to their own portfolio
NextLoops ==
    \/ NoAuthPending /\ ConnectionStep
    \/ NoAuthPending /\ AuthStartWith({"tokA"})
    \/ AuthDone
    \/ NoAuthPending /\ \E c \in Conns : dataUserId[c] = "A" /\ SubscribePortfolio(c, "A")
    \/ SendCurrentPortfolioSettles
    \/ NoAuthPending /\ \E c \in CacheClients : SubscribePrices(c)
    \/ SendCurrentPricesSettles
    \/ NoAuthPending /\ PriceTickFires
    \/ PriceTickSettles
    \/ NoAuthPending /\ PortfolioTickFires
    \/ PortfolioIterSettles

SpecLoops == Init /\ [][NextLoops]_vars

\* setInterval fires its callback every period whatever the earlier callbacks
\* did, and every awaited call settles: the provider requests carry a timeout
\* of 10000 ms, jwt.verify is synchronous, the persistence reads resolve or reject
LoopsFairness ==
    /\ WF_vars(AuthDone)
    /\ SF_vars(NoAuthPending /\ PriceTickFires)
    /\ SF_vars(NoAuthPending /\ PortfolioTickFires)
    /\ SF_vars(PriceTickSettles)
    /\ SF_vars(PortfolioIterSettles)
    /\ SF_vars(SendCurrentPricesSettles)
    /\ SF_vars(SendCurrentPortfolioSettles)

SpecLoopsFair == SpecLoops /\ LoopsFairness

\* the per-user pushes with what each socket is sent, over connections and
\* identities
NextPush ==
    \/ NoAuthPending /\ ConnectionStep
    \/ NoAuthPending /\ AuthStart
    \/ AuthDone
    \/ NoAuthPending /\ \E u \in Users, e \in PushEvents : IssuePush(u, e)

SpecPush == Init /\ [][NextPush]_vars

\* the callers of getCurrentPrices in SpecRace
RaceCallers == CacheClients \cup {"refresh"}
\* what the providers do in SpecRace when asked at time t: the primary answers
\* for every coin, or both fail
RaceOutcomes(t) ==
    {o \in Outcomes(t) : /\ o.secondary = Failed
                         /\ o.primary.ok => DOMAIN o.primary.data = SUPPORTED_CURRENCIES}

\* two callers of getCurrentPrices on one PriceService, a client's immediate
\* push and the service's refresh timer, with answers that take time to arrive
NextRace ==
    \/ \E c \in CacheClients : Connect(c)
    \/ \E c \in CacheClients : Disconnect(c)
    \/ \E c \in CacheClients : SubscribePrices(c)
    \/ \E c \in CacheClients : SendCurrentPricesDeliver(c)
    \/ RefreshIntervalStart
    \/ RefreshIntervalDeliver
    \/ \E caller \in RaceCallers, o \in RaceOutcomes(now) : ProviderAnswers(caller, o)
    \/ AdvanceClock

SpecRace == Init /\ [][NextRace]_vars

\* the transaction feed: subscriptions to it and broadcastTransactionUpdate,
\* over connections and identities
NextTransactions ==
    \/ NoAuthPending /\ ConnectionStep
    \/ NoAuthPending /\ AuthStart
    \/ AuthDone
    \/ NoAuthPending /\ TransactionFeedStep
    \/ NoAuthPending /\ \E u \in Users :
                           PushEvent(u, "transaction-update") /\ UNCHANGED pushLog

SpecTransactions == Init /\ [][NextTransactions]_vars

----------------------------------------------------------------------------
TypeOK ==
    /\ sockState \in [Conns -> {"new", "live", "dead"}]
    /\ dataUserId \in [Conns -> Users \cup {Undefined}]
    /\ DOMAIN connectedUsers \subseteq Users
    /\ priceSubscribers \subseteq Conns
    /\ DOMAIN portfolioSubscribers \subseteq Conns
    /\ DOMAIN transactionSubscribers \subseteq Conns
    /\ priceTick \in {"idle", "fetching"}

\* the live connections whose authenticated identity is u
LiveAs(u) == {c \in Live : dataUserId[c] = u}
\* the sockets the last step emitted `event` to
EmittedTo(event) == {m.to : m \in {x \in emitted : x.event = event}}
\* c is in none of the three subscription collections
NoSubscription(c) ==
    /\ c \notin priceSubscribers
    /\ c \notin DOMAIN portfolioSubscribers
    /\ c \notin DOMAIN transactionSubscribers

----------------------------------------------------------------------------
\* C1: getConnectedUsersCount() equals the number of distinct user ids that
\* are the authenticated identity of at least one live connection, and
\* isUserConnected(u) holds exactly when u is the identity of a live connection.
C1_RegistryConsistency ==
    /\ getConnectedUsersCount = Cardinality({u \in Users : LiveAs(u) # {}})
    /\ \A u \in Users : isUserConnected(u) <=> LiveAs(u) # {}

\* C2: every connection id contained in connectedUsers belongs to a
\* connection that has not been disconnected.
C2_IndexHoldsOnlyLive ==
    \A u \in DOMAIN connectedUsers : connectedUsers[u] \cap Dead = {}

\* C3: on a connection with no authenticated user id, subscribe-portfolio and
\* subscribe-transactions answer with an Unauthorized error for every argument
\* (a user id or an absent one) and leave both subscriber maps unchanged.
C3_UnauthenticatedSubscribeRejected ==
    [][\A c \in Conns, u \in Users \cup {Undefined} :
         (dataUserId[c] = Undefined
            /\ (SubscribePortfolio(c, u) \/ SubscribeTransactions(c, u)))
         => /\ portfolioSubscribers' = portfolioSubscribers
            /\ transactionSubscribers' = transactionSubscribers
            /\ \E m \in emitted' : m.to = c /\ m.event = "error"]_vars

\* C4: an authenticate on a connection that is already authenticated changes
\* neither the connection's user id, nor connectedUsers, nor the subscriptions,
\* whichever user the credential resolves to.
C4_ReauthenticateIsNoOp ==
    [][\A c \in Conns, t \in Tokens :
         (dataUserId[c] # Undefined /\ AuthenticateDone(c, t))
         => /\ dataUserId' = dataUserId
            /\ connectedUsers' = connectedUsers
            /\ priceSubscribers' = priceSubscribers
            /\ portfolioSubscribers' = portfolioSubscribers
            /\ transactionSubscribers' = transactionSubscribers]_vars

\* C5: an event push for user u is emitted to every live connection whose
\* identity is u and to no connection whose identity is another user; with no
\* live connection of u nothing is emitted.
C5_PushReachesExactlyTheUser ==
    [][\A u \in Users, e \in Events :
         PushEvent(u, e)
         => /\ LiveAs(u) \subseteq EmittedTo(e)'
            /\ \A c \in EmittedTo(e)' : dataUserId[c] \notin Users \ {u}
            /\ LiveAs(u) = {} => emitted' = {}]_vars

\* C6: every entry (connection, user) of portfolioSubscribers has user equal
\* to the connection's current identity, and every portfolio-update emitted to
\* a connection is the valuation of that connection's own identity.
C6_PortfolioEntriesMatchIdentity ==
    /\ \A c \in DOMAIN portfolioSubscribers : portfolioSubscribers[c] = dataUserId[c]
    /\ \A m \in emitted : m.event = "portfolio-update" => m.data = dataUserId[m.to]

\* C7: once the disconnect handling of a connection has returned, no emit is
\* attempted to it by any path.
C7_NoEmitAfterDisconnect ==
    \A m \in emitted : sockState[m.to] # "dead"

\* C8: a disconnected connection is in none of priceSubscribers,
\* portfolioSubscribers and transactionSubscribers, from the step of its
\* disconnect on (the step that also removes it from the index entry of its
\* user), and in every later state.
C8_DisconnectClearsSubscriptions ==
    /\ [](\A c \in Dead : NoSubscription(c))
    /\ [][\A c \in Conns :
            (sockState[c] = "live" /\ sockState'[c] = "dead")
            => /\ c \notin priceSubscribers'
               /\ c \notin DOMAIN portfolioSubscribers'
               /\ c \notin DOMAIN transactionSubscribers'
               /\ dataUserId[c] \in DOMAIN connectedUsers'
                    => c \notin connectedUsers'[dataUserId[c]]]_vars

\* an authenticated connection that subscribed to prices (its immediate push is
\* still pending) has been disconnected while another connection keeps its
\* subscriptions
C8_Witness ==
    \E c \in Dead, d \in Live :
        /\ dataUserId[c] \in Users
        /\ c \in pricesInFlight
        /\ d \in priceSubscribers
        /\ d \in DOMAIN portfolioSubscribers
        /\ d \in DOMAIN transactionSubscribers

\* C9: running handleDisconnection a second time for the same connection
\* leaves connectedUsers and the three subscription collections exactly as the
\* first call left them, also when the user has other live connections.
C9_DisconnectIdempotent ==
    [][\A c \in Conns :
         (sockState[c] = "live" /\ sockState'[c] = "dead")
         => handleDisconnection(Registry', c, dataUserId'[c]) = Registry']_vars

\* a connection of a user has been disconnected while another one of the same
\* user is live and indexed
C9_Witness ==
    \E c \in Dead, d \in Live :
        /\ dataUserId[c] \in Users
        /\ dataUserId[d] = dataUserId[c]
        /\ dataUserId[d] \in DOMAIN connectedUsers
        /\ d \in connectedUsers[dataUserId[d]]

C11_NonSubscriberGetsNoPriceUpdate ==
    \A m \in emitted :
        m.event = "price-update" => Receivers(m.to) \cap (Conns \ PriceClients) = {}

\* a getCurrentPrices call that found no fresh entry when it was made is
\* resumed with the providers behaving as `outcome`
ResolvesUpstream(outcome) ==
    \/ /\ priceTick = "fetching"
       /\ priceCalls["tick"].upstream
       /\ PriceTickResolve(outcome)
    \/ \E c \in Conns :
          /\ c \in pricesInFlight
          /\ priceCalls[c].upstream
          /\ SendCurrentPricesResolve(c, outcome)

\* the caller of the resumed getCurrentPrices call passes on `prices`
PassesOn(prices) ==
    IF priceTick = "fetching" /\ priceTick' = "idle"
    THEN emitted' = {Emit(c, "price-update", prices) : c \in priceSubscribers}
    ELSE \E c \in pricesInFlight : emitted' = {Emit(c, "price-update", prices)}

\* all records in the cache, fresh or not
AllCached == {cache[k].data : k \in DOMAIN cache}
\* no entry of the cache is fresh
NoneFresh == \A k \in DOMAIN cache : cache[k].expiry <= now

\* C12: a price-loop tick at which priceSubscribers is empty makes no upstream
\* provider call, does not touch the price cache and emits no message.
C12_EmptyTickDoesNothing ==
    [][(Cardinality(priceSubscribers) = 0 /\ PriceTickStart)
         => /\ priceTick' = "idle"
            /\ priceCalls' = priceCalls
            /\ "tick" \notin DOMAIN priceCalls'
            /\ cache' = cache
            /\ lastFetched' = lastFetched
            /\ emitted' = {}]_vars

\* the price loop is idle with no subscriber left, a live connection and a
\* cache whose entries have all expired (a tick with subscribers would fetch)
C12_Witness ==
    /\ priceTick = "idle"
    /\ priceSubscribers = {}
    /\ priceCalls = EmptyMap
    /\ Live # {}
    /\ cache # EmptyMap
    /\ NoneFresh
    /\ emitted = {}

\* C13: a record cached for symbol S at time t has expiry t + CACHE_DURATION
\* under the key of S; while now < expiry the fresh read returns it unchanged,
\* from now = expiry on the fresh read excludes it and the any read still
\* includes it; the entry stays as written until it is overwritten or the
\* cache is cleared.
C13_CacheFreshness ==
    /\ [](\A k \in DOMAIN cache :
            /\ now < cache[k].expiry
                 => cache[k].data \in getCachedPrices(cache, now, FALSE)
            /\ now >= cache[k].expiry
                 => /\ cache[k].data \notin getCachedPrices(cache, now, FALSE)
                    /\ cache[k].data \in getCachedPrices(cache, now, TRUE))
    /\ [][/\ \A k \in DOMAIN cache' :
               (k \notin DOMAIN cache \/ cache'[k] # cache[k])
               => /\ cache'[k].expiry = now + CACHE_DURATION
                  /\ toLowerCase(cache'[k].data.symbol) = k
          /\ \A k \in DOMAIN cache :
               k \in DOMAIN cache' \/ cache' = EmptyMap]_vars

\* the clock stands exactly at the expiry of a cached record while another
\* record is still fresh
C13_Witness ==
    \E k, j \in DOMAIN cache :
        /\ now = cache[k].expiry
        /\ now < cache[j].expiry

\* C14: when no cached entry was fresh, the primary provider fails and the
\* secondary succeeds, getCurrentPrices returns exactly the secondary's
\* normalized records, and afterwards the cache holds each of them under its
\* symbol with expiry = write time + CACHE_DURATION (other entries untouched).
C14_SecondaryProviderFallback ==
    [][\A o \in Outcomes(now) :
         (~o.primary.ok /\ o.secondary.ok /\ ResolvesUpstream(o))
         => LET quotes  == o.secondary.data
                records == {[symbol |-> x, price |-> quotes[x]] : x \in DOMAIN quotes}
            IN  /\ PassesOn(records)
                /\ \A p \in records :
                     /\ toLowerCase(p.symbol) \in DOMAIN cache'
                     /\ cache'[toLowerCase(p.symbol)]
                          = [data |-> p, expiry |-> now + CACHE_DURATION]
                /\ \A k \in DOMAIN cache :
                     k \in DOMAIN cache'
                     /\ (k \notin {toLowerCase(p.symbol) : p \in records}
                           => cache'[k] = cache[k])]_vars

\* the secondary provider's records have just been cached over older entries
\* and passed on to a subscriber
C14_Witness ==
    /\ lastFetched.by = "CoinMarketCap"
    /\ Cardinality(lastFetched.prices) = 2
    /\ now > 0
    /\ \A p \in lastFetched.prices :
         /\ toLowerCase(p.symbol) \in DOMAIN cache
         /\ cache[toLowerCase(p.symbol)] = [data |-> p, expiry |-> now + CACHE_DURATION]
    /\ \E m \in emitted : m.event = "price-update" /\ m.data = lastFetched.prices

\* C15: when both providers fail the price fetch fails with an error and the
\* cache is left exactly as it was: no entry added, removed, overwritten or
\* given a new expiry.
C15_FailedFetchLeavesCache ==
    [][\A o \in Outcomes(now) :
         (~o.primary.ok /\ ~o.secondary.ok /\ ResolvesUpstream(o))
         => /\ ~fetchPricesFromAPI(o).ok
            /\ cache' = cache
            /\ lastFetched' = lastFetched]_vars

\* a subscribing connection has just been sent the expired records of a cache
\* that a failed fetch left in place
C15_Witness ==
    /\ cache # EmptyMap
    /\ NoneFresh
    /\ \E c \in Conns : emitted = {Emit(c, "price-update", AllCached)}
    /\ priceTick = "idle"
    /\ priceSubscribers # {}

\* C16 as stated: when both providers fail and the cache holds records, all
\* expired, getCurrentPrices returns the last successfully fetched price set
\* and the price subscribers of that tick receive it.
C16_StaleIsLastFetchedSet ==
    [][\A o \in Outcomes(now) :
         (~o.primary.ok /\ ~o.secondary.ok /\ cache # EmptyMap /\ NoneFresh
            /\ ResolvesUpstream(o))
         => /\ PassesOn(lastFetched.prices)
            /\ lastFetched.prices = AllCached]_vars

\* C16 amended: when both providers fail and the cache holds records, all
\* expired, getCurrentPrices does not raise and returns exactly the cached
\* records, for each symbol the record most recently fetched for it (which need
\* not all come from one fetch); the price subscribers of that tick receive
\* that set.
C16_StaleIsAllCached ==
    [][\A o \in Outcomes(now) :
         (~o.primary.ok /\ ~o.secondary.ok /\ cache # EmptyMap /\ NoneFresh
            /\ ResolvesUpstream(o))
         => /\ PassesOn(AllCached)
            /\ AllCached # {}
            /\ cache' = cache]_vars

\* a tick has just pushed the expired records to its subscriber, the records
\* being of two different fetches
C16_Witness ==
    /\ cache # EmptyMap
    /\ NoneFresh
    /\ priceSubscribers # {}
    /\ emitted = {Emit(c, "price-update", AllCached) : c \in priceSubscribers}
    /\ lastFetched.prices # {}
    /\ lastFetched.prices # AllCached

\* the investments the last valuation was computed over
Qualifying == findMany(valuation.rows)
\* a valuation has been computed from rows that could be read
Valuated == valuation # <<>> /\ ~valuation.readFails

\* C17: for a user whose only qualifying investment is active with amount a
\* and expected return r in ETH, at ETH unit price p, getPortfolioValue returns
\* totalInvested = a*p, totalValue = (a+r)*p, totalProfit = r*p and
\* profitPercentage = 100*r/a (a = 1.00, r = 0.05, p = 2000: 2000, 2100, 100
\* and 5.0, here 200000 and 210000 and 10000 cents and 5 percent).
C17_SingleActiveEthInvestment ==
    (Valuated /\ Len(Qualifying) = 1)
    => LET inv == Qualifying[1]
           a   == inv.amount
           r   == inv.expectedReturn
           p   == priceOf(valuation.prices, "eth")
       IN  (inv.status = "ACTIVE" /\ inv.currency = "ETH" /\ r > 0 /\ p > 0)
           => /\ valuation.result.totalInvested = a * p
              /\ valuation.result.totalValue = (a + r) * p
              /\ valuation.result.totalProfit = r * p
              /\ valuation.result.profitPercentage = (100 * r) \div a

\* the return figure of an investment: the actual return of a completed one,
\* the expected return (the amount when there is none) of an active one
ReturnFigure(inv) ==
    IF inv.status = "COMPLETED"
    THEN inv.actualReturn
    ELSE IF inv.expectedReturn # 0 THEN inv.expectedReturn ELSE inv.amount

RECURSIVE SumOwnCurrency(_, _, _)
\* the sum over the first n investments of the amount (or, with ofReturn, of
\* the return figure) times the unit price of the investment's own currency
SumOwnCurrency(investments, n, ofReturn) ==
    IF n = 0 THEN 0
    ELSE LET inv == investments[n]
         IN  SumOwnCurrency(investments, n - 1, ofReturn)
             + (IF ofReturn THEN ReturnFigure(inv) ELSE inv.amount)
                 * priceOf(valuation.prices, toLowerCase(inv.currency))

\* C18: getPortfolioValue prices every qualifying investment at the unit price
\* of its own currency: totalInvested is the sum of amount times that price and
\* totalValue the sum of the return figure times that price.
C18_OwnCurrencyPricing ==
    Valuated
    => /\ valuation.result.totalInvested
            = SumOwnCurrency(Qualifying, Len(Qualifying), FALSE)
       /\ valuation.result.totalValue
            = SumOwnCurrency(Qualifying, Len(Qualifying), TRUE)

\* C19: whenever totalInvested is 0 (no qualifying investment, or the unit
\* price needed is missing and taken as 0) getPortfolioValue returns
\* profitPercentage = 0 (the division is not made).
C19_ZeroInvestedZeroPercent ==
    (valuation # <<>> /\ valuation.result.totalInvested = 0)
    => valuation.result.profitPercentage = 0

\* a user with a qualifying investment has been valuated with no ETH price in
\* the list: nothing invested in usd, percentage 0
C19_Witness ==
    /\ Valuated
    /\ Len(Qualifying) > 0
    /\ priceOf(valuation.prices, "eth") = 0
    /\ valuation.result.totalInvested = 0
    /\ valuation.result.profitPercentage = 0

\* C20: every notify for user u first persists a notification record for u and
\* then, if the persistence succeeded and u has live connections, emits a
\* 'notification' message to each of u's live connections.
C20_NotifyPersistsThenEmits ==
    [][\A u \in Users :
         createNotification(u, TRUE)
         => /\ notifications'[u] = notifications[u] + 1
            /\ LiveAs(u) \subseteq EmittedTo("notification")']_vars

\* C21: a notification directed at user u through any entry point
\* (createNotification, the admin send-to-user action, the admin broadcast
\* action) while u has no live connection leaves a persisted record for u
\* (the persistence itself not failing).
C21_OfflineNotificationPersisted ==
    [][\A u \in Users :
         /\ LiveAs(u) = {}
         /\ \/ SendNotificationJob(u, TRUE)
            \/ AdminSendNotification(u)
            \/ AdminBroadcastNotification
         => notifications'[u] > notifications[u]]_vars

\* C22: when persisting a notification fails the operation does not report
\* success: the send-notification job does not finish as processed and no
\* live push is made for that notification.
C22_FailedPersistenceNotProcessed ==
    [][\A u \in Users :
         SendNotificationJob(u, FALSE)
         => /\ lastOutcome'.status # "processed"
            /\ EmittedTo("notification")' = {}]_vars

\* C30: a transaction-update push for user u is emitted only to connections
\* that are subscribed to transactions at that time.
C30_TransactionUpdateOnlyToSubscribed ==
    [][\A u \in Users :
         PushEvent(u, "transaction-update")
         => EmittedTo("transaction-update")' \subseteq DOMAIN transactionSubscribers]_vars

\* C26: a live connection that is not subscribed to prices (its
\* unsubscribe-prices has been processed and it has not subscribed again)
\* receives no price-update, whether or not the immediate push of an earlier
\* subscribe-prices was still waiting for the prices.
C26_NoPriceUpdateAfterUnsubscribe ==
    [][\A c \in EmittedTo("price-update")' :
         sockState[c] = "live" => c \in priceSubscribers]_vars

\* C28: the list getCurrentPrices returns (the data of the price-update it is
\* emitted in) has a record for every symbol the cache holds a record for,
\* whether some entries have expired and others have not.
C28_ReturnsEveryCachedSymbol ==
    [][\A m \in {x \in emitted' : x.event = "price-update"} :
         DOMAIN cache' \subseteq {toLowerCase(p.symbol) : p \in m.data}]_vars

\* C29: a manual price-update trigger leaves the number of active periodic
\* price-refresh timers as it was.
C29_TriggerStartsNoTimer ==
    [][(\E p \in PriceLists : TriggerPriceUpdate(p))
         => refreshTimers' = refreshTimers]_vars

\* the step is an iteration of the portfolio loop whose valuation met a
\* failing read of the investments
FailedIterationStep ==
    /\ portCur # <<>>
    /\ portCur' # portCur
    /\ valuation' # <<>>
    /\ valuation'.readFails

\* C24: a portfolio-loop iteration whose valuation fails (the read of the
\* investments throws) is skipped: no portfolio-update is emitted in it.
C24_FailedValuationSkipped ==
    [][FailedIterationStep => EmittedTo("portfolio-update")' = {}]_vars

\* the last iteration of the portfolio loop met a failing read
IterationFailed == valuation # <<>> /\ valuation.readFails

\* the step is the price loop's callback resumed by a getCurrentPrices call
\* whose upstream fetch failed (nothing was cached)
FailedFetchStep ==
    /\ priceTick = "fetching"
    /\ "tick" \in DOMAIN priceCalls
    /\ priceCalls["tick"].upstream
    /\ "tick" \notin DOMAIN priceCalls'
    /\ cache' = cache

\* C25: a failure inside an iteration of the price loop or of the portfolio
\* loop never stops the loop: after a failed portfolio iteration the loop is
\* at a remaining subscriber of the tick if there is one, a price tick whose
\* fetch failed leaves the loop idle, and the callbacks of both loops keep
\* being started for ever.
C25_FailureNeverStopsLoops ==
    /\ [][FailedIterationStep
            => LET visited == (portVisited \cup {portCur[1]})
                                  \cap DOMAIN portfolioSubscribers
               IN  /\ PortRemaining(visited) # {}
                        => portCur' # <<>> /\ portCur'[1] \in PortRemaining(visited)
                   /\ PortRemaining(visited) = {} => portCur' = <<>>]_vars
    /\ [][FailedFetchStep => priceTick' = "idle"]_vars
    /\ []<>(ticks.price = 0) /\ []<>(ticks.price = 1)
    /\ []<>(ticks.portfolio = 0) /\ []<>(ticks.portfolio = 1)

\* a portfolio iteration has just failed for one subscriber, the loop is at
\* another one, and both loops have started a callback
C25_Witness ==
    /\ IterationFailed
    /\ portCur # <<>>
    /\ portVisited # {}
    /\ EmittedTo("portfolio-update") = portVisited
    /\ ticks.portfolio = 1 /\ ticks.price = 1

\* the pushes of user u that socket c was sent, in the order it was sent them
SentOf(c, u) ==
    LET ofUser(m) == m[1] = u
    IN  SelectSeq(delivered[c], ofUser)

C27_NoOlderObservationCached ==
    [][\A k \in DOMAIN cache \cap DOMAIN cache' :
         cache'[k].data.price >= cache[k].data.price]_vars

====
